---- MODULE Spec2Model ----
(***************************************************************************)
(* Device property lifecycle, connection handshake, command dispatch and   *)
(* polling timer of the example drivers under drivers/examples:            *)
(* MyCustomDriver, DummyDome, DummyDustcap, DummyFilterWheel,              *)
(* DummyFocuser, DummyGPS and DummyLightbox.                               *)
(*                                                                         *)
(* One driver process holds one device instance (the static unique_ptr of  *)
(* each translation unit); the variable driver says which one.  The        *)
(* framework (INDI::DefaultDevice, the connection plugin, the event loop)  *)
(* is the environment: it owns the connection state, calls the entry       *)
(* points one at a time and keeps the registry of published properties.    *)
(***************************************************************************)
EXTENDS Integers, Sequences, FiniteSets, TLC

\* ---------------------------------------------------------------- bounds

\* The SAY_COUNT counter is capped: the local SAY_HELLO branch is taken only below it.
MaxCount == 2
\* The longest batch of member updates in one switch request.
MaxMembers == 2
\* By how many bytes a device response may be longer than the buffer of sendCommand.
MaxOverrun == 1
\* The highest filter index a client selects.
MaxFilter == 3

\* ------------------------------------------------------------- vocabulary

Drivers ==
    {"MyCustomDriver", "DummyDome", "DummyDustcap", "DummyFilterWheel",
     "DummyFocuser", "DummyGPS", "DummyLightbox"}

\* The device name of this driver, the name of another device, and a null dev.
ThisDev == "this"
OtherDev == "other"
NullDev == "nullptr"
Devs == {ThisDev, OtherDev, NullDev}

\* No open port: the value PortFD is constructed with.
NoFD == -1
\* The descriptor an open serial port yields.
OpenFD == 3

\* The properties MyCustomDriver fills in initProperties.
LocalProps == {"SAY_HELLO", "WHAT_TO_SAY", "SAY_COUNT"}
\* The park property of the dust cap interface.
CapProps == {"CAP_PARK"}

\* The members of SAY_HELLO, in enum order.
SayHelloMembers == <<"SAY_HELLO_DEFAULT", "SAY_HELLO_CUSTOM">>
SAY_HELLO_N == Len(SayHelloMembers)

\* The texts a client may send for WHAT_TO_SAY; the first is the initial one.
Texts == {"Hello, world!", "Hi"}

\* The size of the response buffer of sendCommand (char res[8]).
RES_SIZE == 8
\* The commands a caller hands to sendCommand.
Cmds == {"PING#", "STATUS#"}
\* The lengths of a response the device ends with '#': up to MaxOverrun bytes
\* more than the buffer holds.
ReadLens == 1..(RES_SIZE + MaxOverrun)

VARIABLES
    driver,        \* which driver this process is
    inited,        \* initProperties has run
    sim,           \* the simulation flag (isSimulation())
    conn,          \* the framework's connection state
    connFD,        \* the descriptor the serial connection holds
    PortFD,        \* the driver's own copy of the descriptor
    published,     \* the driver-defined properties visible to clients
    definedOnConnect,    \* what updateProperties defined at the latest connect
    deletedOnDisconnect, \* what updateProperties deleted at the latest disconnect
    wasConnected,  \* the device has been connected at least once
    SayHelloS,     \* member name -> ISS_ON / ISS_OFF
    SayHelloSP_s,  \* SayHelloSP.s
    WhatToSayT,    \* WhatToSayT[0].text
    WhatToSayTP_s, \* WhatToSayTP.s
    SayCountN,     \* SayCountN[0].value
    SayCountNP_s,  \* SayCountNP.s
    timerArmed,    \* a timer callback is pending
    filled,        \* property -> how far the IUFill* calls have set it up
    alive,         \* the driver process has not been aborted
    helloClaims,   \* how many SAY_HELLO requests the local branch has claimed
    config,        \* the WHAT_TO_SAY text in the configuration file, or "none"
    CurrentFilter, \* DummyFilterWheel: the filter in place
    TargetFilter,  \* DummyFilterWheel: the filter asked for
    FilterSlotN_min, \* FilterSlotN[0].min
    FilterSlotN_max, \* FilterSlotN[0].max
    last           \* what the latest entry point did (observation record)

props == <<SayHelloS, SayHelloSP_s, WhatToSayT, WhatToSayTP_s, SayCountN, SayCountNP_s>>
link == <<sim, conn, connFD, PortFD>>
registry == <<published, definedOnConnect, deletedOnDisconnect, wasConnected>>
slots == <<FilterSlotN_min, FilterSlotN_max>>
wheel == <<CurrentFilter, TargetFilter, slots>>
extra == <<helloClaims, config, wheel>>
vars == <<driver, inited, props, link, registry, timerArmed, filled, alive, extra, last>>

\* ------------------------------------------------------------ observation

NoNotify == [p \in LocalProps |-> 0]

\* No port traffic and no response.
NoIO ==
    [flushes |-> 0, writes |-> 0, reads |-> 0, index |-> -1, res |-> <<>>,
     oob |-> FALSE]

\* The record of an entry point that did nothing observable.  arg is the text
\* a request carries for WHAT_TO_SAY, state the IPState a capability method
\* returned, io the port traffic of sendCommand with writeOk and readOk the
\* outcomes the port gave, regErr a misuse of the property registry, within
\* the entry point that was running at the start, reconnect a Handshake of a
\* device that had been connected before, order the library and framework
\* calls the entry point made, index the filter index it was given or returned, done the
\* indexes it reported with SelectFilterDone.
Event(op, dev, name) ==
    [op |-> op, dev |-> dev, name |-> name, ret |-> FALSE, local |-> FALSE,
     base |-> FALSE, updOk |-> TRUE, notify |-> NoNotify, logs |-> 0,
     setTimer |-> 0, portReads |-> 0, connected |-> FALSE,
     arg |-> "-", state |-> "-", io |-> NoIO, writeOk |-> TRUE, readOk |-> TRUE,
     regErr |-> "none", within |-> "none", reconnect |-> FALSE,
     order |-> <<>>, index |-> 0, done |-> <<>>]

\* ------------------------------------------------------------- properties

isConnected == conn = "Connected"
isSimulation == sim

AllOff == [m \in {SayHelloMembers[i] : i \in 1..SAY_HELLO_N} |-> "ISS_OFF"]

\* One IUFill* call: the members of a property, or its vector.
FillMembers(p) == [call |-> "members", prop |-> p]
FillVector(p) == [call |-> "vector", prop |-> p]

\* The fill calls of initProperties, in the order of the code.
FillCalls ==
    <<FillMembers("SAY_HELLO"), FillMembers("SAY_HELLO"), FillVector("SAY_HELLO"),
      FillMembers("WHAT_TO_SAY"), FillVector("WHAT_TO_SAY"),
      FillMembers("SAY_COUNT"), FillVector("SAY_COUNT")>>

\* A property nothing has filled yet.
Unfilled == [p \in LocalProps |-> "none"]

\* How far a property is set up after one more fill call: its members first,
\* then its vector, which takes the members as they are at that moment.
FillStep(f, c) ==
    IF c.call = "members"
    THEN [f EXCEPT ![c.prop] = IF @ \in {"none", "members"} THEN "members"
                               ELSE "misordered"]
    ELSE [f EXCEPT ![c.prop] = IF @ = "members" THEN "vector" ELSE "misordered"]

RECURSIVE Fill(_, _)
Fill(f, calls) ==
    IF calls = <<>> THEN f ELSE Fill(FillStep(f, Head(calls)), Tail(calls))

\* initProperties with the defineProperty call of SAY_HELLO left in.
initProperties_definesEarly ==
    [SayHelloS |-> AllOff, SayHelloSP_s |-> "IPS_IDLE",
     WhatToSayT |-> "Hello, world!", WhatToSayTP_s |-> "IPS_IDLE",
     SayCountN |-> 0, SayCountNP_s |-> "IPS_IDLE",
     fills |-> FillCalls,
     defines |-> <<"SAY_HELLO">>]

\* initProperties that fills the SAY_COUNT vector before its member.
initProperties_vectorFirst ==
    [SayHelloS |-> AllOff, SayHelloSP_s |-> "IPS_IDLE",
     WhatToSayT |-> "Hello, world!", WhatToSayTP_s |-> "IPS_IDLE",
     SayCountN |-> 0, SayCountNP_s |-> "IPS_IDLE",
     fills |-> <<FillMembers("SAY_HELLO"), FillMembers("SAY_HELLO"),
                 FillVector("SAY_HELLO"),
                 FillMembers("WHAT_TO_SAY"), FillVector("WHAT_TO_SAY"),
                 FillVector("SAY_COUNT"), FillMembers("SAY_COUNT")>>,
     defines |-> <<>>]

\* The property values initProperties fills and the fill calls it makes; it
\* defines nothing (the defineProperty calls were moved to updateProperties).
initProperties ==
    [SayHelloS |-> AllOff, SayHelloSP_s |-> "IPS_IDLE",
     WhatToSayT |-> "Hello, world!", WhatToSayTP_s |-> "IPS_IDLE",
     SayCountN |-> 0, SayCountNP_s |-> "IPS_IDLE",
     fills |-> FillCalls,
     defines |-> <<>>]

\* updateProperties that forgets to delete SAY_COUNT.
MyCustomDriver_updateProperties_keepsCount(connected) ==
    IF connected
    THEN [defines |-> <<"SAY_HELLO", "WHAT_TO_SAY", "SAY_COUNT">>, deletes |-> <<>>,
          resets |-> {}]
    ELSE [defines |-> <<>>, deletes |-> <<"SAY_HELLO", "WHAT_TO_SAY">>,
          resets |-> {}]

\* updateProperties that forgets to define WHAT_TO_SAY.
MyCustomDriver_updateProperties_skipsText(connected) ==
    IF connected
    THEN [defines |-> <<"SAY_HELLO", "SAY_COUNT">>, deletes |-> <<>>,
          resets |-> {}]
    ELSE [defines |-> <<>>, deletes |-> <<"SAY_HELLO", "WHAT_TO_SAY", "SAY_COUNT">>,
          resets |-> {}]

\* updateProperties that fills the properties again before it defines them.
MyCustomDriver_updateProperties_refills(connected) ==
    IF connected
    THEN [defines |-> <<"SAY_HELLO", "WHAT_TO_SAY", "SAY_COUNT">>, deletes |-> <<>>,
          resets |-> LocalProps]
    ELSE [defines |-> <<>>, deletes |-> <<"SAY_HELLO", "WHAT_TO_SAY", "SAY_COUNT">>,
          resets |-> {}]

\* MyCustomDriver::updateProperties: the define and delete calls it makes, and
\* the properties whose values it sets back (none).
MyCustomDriver_updateProperties(connected) ==
    IF connected
    THEN [defines |-> <<"SAY_HELLO", "WHAT_TO_SAY", "SAY_COUNT">>, deletes |-> <<>>,
          resets |-> {}]
    ELSE [defines |-> <<>>, deletes |-> <<"SAY_HELLO", "WHAT_TO_SAY", "SAY_COUNT">>,
          resets |-> {}]

\* DummyDustcap::updateProperties.
DummyDustcap_updateProperties(connected) ==
    IF connected
    THEN [defines |-> <<"CAP_PARK">>, deletes |-> <<>>,
          resets |-> {}]
    ELSE [defines |-> <<>>, deletes |-> <<"CAP_PARK">>,
          resets |-> {}]

\* The drivers whose updateProperties has only TODO branches.
Stub_updateProperties(connected) ==
    [defines |-> <<>>, deletes |-> <<>>,
          resets |-> {}]

updateProperties(d, connected) ==
    CASE d = "MyCustomDriver" -> MyCustomDriver_updateProperties(connected)
      [] d = "DummyDustcap" -> DummyDustcap_updateProperties(connected)
      [] OTHER -> Stub_updateProperties(connected)

Range(s) == {s[i] : i \in 1..Len(s)}

\* No updateProperties call.
NoCalls == [defines |-> <<>>, deletes |-> <<>>, resets |-> {}]

\* The registry after the define and delete calls of one updateProperties.
Registry(pub, calls) == (pub \cup Range(calls.defines)) \ Range(calls.deletes)

\* The misuse of the registry in the calls of one updateProperties: a define
\* of a name that is defined, or a delete of a name that is not.
RegistryErrors(pub, calls) ==
    IF \E i \in 1..Len(calls.defines) :
            \/ calls.defines[i] \in pub
            \/ \E j \in 1..(i - 1) : calls.defines[j] = calls.defines[i]
    THEN "define_twice"
    ELSE IF \E i \in 1..Len(calls.deletes) :
            \/ calls.deletes[i] \notin pub \cup Range(calls.defines)
            \/ \E j \in 1..(i - 1) : calls.deletes[j] = calls.deletes[i]
    THEN "delete_undefined"
    ELSE "none"

\* ----------------------------------------------------------------- handshake

\* Handshake without the simulation short-circuit: it reads the port and
\* succeeds only on an open descriptor.
MyCustomDriver_Handshake_noShortCircuit ==
    [ret |-> connFD # NoFD, PortFD |-> connFD, portReads |-> 1, logs |-> 0]

\* MyCustomDriver::Handshake: simulation returns before the port is read.
MyCustomDriver_Handshake ==
    IF isSimulation
    THEN [ret |-> TRUE, PortFD |-> PortFD, portReads |-> 0, logs |-> 1]
    ELSE [ret |-> TRUE, PortFD |-> connFD, portReads |-> 1, logs |-> 0]

\* DummyDustcap::Handshake.
DummyDustcap_Handshake ==
    IF isSimulation
    THEN [ret |-> TRUE, PortFD |-> PortFD, portReads |-> 0, logs |-> 1]
    ELSE [ret |-> TRUE, PortFD |-> connFD, portReads |-> 1, logs |-> 0]

\* DummyGPS::Handshake.
DummyGPS_Handshake ==
    IF isSimulation
    THEN [ret |-> TRUE, PortFD |-> PortFD, portReads |-> 0, logs |-> 1]
    ELSE [ret |-> TRUE, PortFD |-> connFD, portReads |-> 1, logs |-> 0]

\* DummyLightbox::Handshake.
DummyLightbox_Handshake ==
    IF isSimulation
    THEN [ret |-> TRUE, PortFD |-> PortFD, portReads |-> 0, logs |-> 1]
    ELSE [ret |-> TRUE, PortFD |-> connFD, portReads |-> 1, logs |-> 0]

\* DummyDome::Handshake: PortFD is set by the base class, nothing is read here.
DummyDome_Handshake ==
    IF isSimulation
    THEN [ret |-> TRUE, PortFD |-> PortFD, portReads |-> 0, logs |-> 1]
    ELSE [ret |-> TRUE, PortFD |-> PortFD, portReads |-> 0, logs |-> 0]

\* DummyFocuser::Handshake.
DummyFocuser_Handshake ==
    IF isSimulation
    THEN [ret |-> TRUE, PortFD |-> PortFD, portReads |-> 0, logs |-> 1]
    ELSE [ret |-> TRUE, PortFD |-> PortFD, portReads |-> 0, logs |-> 0]

\* The slot range the filter wheel announces in Handshake.
SlotMin == 1
SlotMax == 8

\* Handshake that returns in simulation before the range is set, as the
\* Handshake of the other drivers does.
DummyFilterWheel_Handshake_simReturnsEarly ==
    IF isSimulation
    THEN [ret |-> TRUE, PortFD |-> PortFD, portReads |-> 0, logs |-> 1,
          min |-> FilterSlotN_min, max |-> FilterSlotN_max, order |-> <<>>]
    ELSE [ret |-> TRUE, PortFD |-> PortFD, portReads |-> 0, logs |-> 0,
          min |-> SlotMin, max |-> SlotMax, order |-> <<"IUUpdateMinMax">>]

\* DummyFilterWheel::Handshake: simulation only logs, then falls through; the
\* slot range is set and pushed with IUUpdateMinMax in both modes.
DummyFilterWheel_Handshake ==
    [ret |-> TRUE, PortFD |-> PortFD, portReads |-> 0,
     logs |-> IF isSimulation THEN 1 ELSE 0,
     min |-> SlotMin, max |-> SlotMax, order |-> <<"IUUpdateMinMax">>]

Handshake(d) ==
    CASE d = "MyCustomDriver" -> MyCustomDriver_Handshake
      [] d = "DummyDustcap" -> DummyDustcap_Handshake
      [] d = "DummyGPS" -> DummyGPS_Handshake
      [] d = "DummyLightbox" -> DummyLightbox_Handshake
      [] d = "DummyDome" -> DummyDome_Handshake
      [] d = "DummyFocuser" -> DummyFocuser_Handshake
      [] d = "DummyFilterWheel" -> DummyFilterWheel_Handshake

\* ------------------------------------------------------------------ dispatch

\* The always-visible controls the inherited handlers own.
BaseSwitchNames == {"CONNECTION", "SIMULATION", "DEBUG"}
BaseTextNames == {"DEVICE_PORT"}
BaseNumberNames == {"POLLING_PERIOD"}

\* The inherited handlers claim a request for this device naming one of their own.
DefaultDevice_ISNewSwitch(dev, name) == dev = ThisDev /\ name \in BaseSwitchNames
DefaultDevice_ISNewText(dev, name) == dev = ThisDev /\ name \in BaseTextNames
DefaultDevice_ISNewNumber(dev, name) == dev = ThisDev /\ name \in BaseNumberNames

\* IUUpdateSwitch: the named members take the given states, in order; a name
\* that is no member stops the update with an error.
RECURSIVE IUUpdateSwitch(_, _)
IUUpdateSwitch(S, upd) ==
    IF upd = <<>> THEN [ok |-> TRUE, S |-> S]
    ELSE IF Head(upd)[1] \notin DOMAIN S THEN [ok |-> FALSE, S |-> S]
    ELSE IUUpdateSwitch([S EXCEPT ![Head(upd)[1]] = Head(upd)[2]], Tail(upd))

\* IUFindOnSwitchIndex: the 0-based index of the first member that is on, or -1.
IUFindOnSwitchIndex(S) ==
    LET on == {i \in 1..SAY_HELLO_N : S[SayHelloMembers[i]] = "ISS_ON"}
    IN IF on = {} THEN -1 ELSE (CHOOSE i \in on : \A j \in on : i <= j) - 1

\* IUResetSwitch: every member off.
IUResetSwitch(S) == [m \in DOMAIN S |-> "ISS_OFF"]

\* IUUpdateText: every name must be a member; then the texts are stored in order.
IUUpdateText(T, upd) ==
    IF \E i \in 1..Len(upd) : upd[i][1] # "WHAT_TO_SAY"
    THEN [ok |-> FALSE, T |-> T]
    ELSE [ok |-> TRUE, T |-> IF upd = <<>> THEN T ELSE upd[Len(upd)][2]]

\* One more IDSet* message for property p.
Notify(n, p) == [n EXCEPT ![p] = @ + 1]

\* What a handler that touched nothing returns.
Quiet ==
    [ret |-> FALSE, local |-> FALSE, base |-> FALSE, updOk |-> TRUE,
     S |-> SayHelloS, SP_s |-> SayHelloSP_s, T |-> WhatToSayT, TP_s |-> WhatToSayTP_s,
     count |-> SayCountN, notify |-> NoNotify, logs |-> 0,
     order |-> <<>>, saves |-> <<>>]

\* ISNewSwitch without the device-name check.
MyCustomDriver_ISNewSwitch_anyDevice(dev, name, upd) ==
    IF DefaultDevice_ISNewSwitch(dev, name)
    THEN [Quiet EXCEPT !.ret = TRUE, !.base = TRUE]
    ELSE IF name = "SAY_HELLO"
    THEN LET u == IUUpdateSwitch(SayHelloS, upd)
             index == IUFindOnSwitchIndex(u.S)
             n1 == Notify(NoNotify, "SAY_COUNT")
         IN [Quiet EXCEPT !.ret = TRUE, !.local = TRUE, !.updOk = u.ok,
                          !.logs = IF index \in {0, 1} THEN 1 ELSE 0,
                          !.count = SayCountN + 1,
                          !.S = IUResetSwitch(u.S),
                          !.SP_s = "IPS_IDLE",
                          !.notify = Notify(n1, "SAY_HELLO")]
    ELSE Quiet

\* ISNewSwitch without the property-name check.
MyCustomDriver_ISNewSwitch_anyName(dev, name, upd) ==
    IF DefaultDevice_ISNewSwitch(dev, name)
    THEN [Quiet EXCEPT !.ret = TRUE, !.base = TRUE]
    ELSE IF dev # NullDev /\ dev = ThisDev
    THEN LET u == IUUpdateSwitch(SayHelloS, upd)
             index == IUFindOnSwitchIndex(u.S)
             n1 == Notify(NoNotify, "SAY_COUNT")
         IN [Quiet EXCEPT !.ret = TRUE, !.local = TRUE, !.updOk = u.ok,
                          !.logs = IF index \in {0, 1} THEN 1 ELSE 0,
                          !.count = SayCountN + 1,
                          !.S = IUResetSwitch(u.S),
                          !.SP_s = "IPS_IDLE",
                          !.notify = Notify(n1, "SAY_HELLO")]
    ELSE Quiet

\* ISNewSwitch that sends the SAY_HELLO update twice (once before the reset).
MyCustomDriver_ISNewSwitch_notifiesTwice(dev, name, upd) ==
    IF DefaultDevice_ISNewSwitch(dev, name)
    THEN [Quiet EXCEPT !.ret = TRUE, !.base = TRUE]
    ELSE IF dev # NullDev /\ dev = ThisDev /\ name = "SAY_HELLO"
    THEN LET u == IUUpdateSwitch(SayHelloS, upd)
             index == IUFindOnSwitchIndex(u.S)
             n0 == Notify(NoNotify, "SAY_HELLO")
             n1 == Notify(n0, "SAY_COUNT")
         IN [Quiet EXCEPT !.ret = TRUE, !.local = TRUE, !.updOk = u.ok,
                          !.logs = IF index \in {0, 1} THEN 1 ELSE 0,
                          !.count = SayCountN + 1,
                          !.S = IUResetSwitch(u.S),
                          !.SP_s = "IPS_IDLE",
                          !.notify = Notify(n1, "SAY_HELLO")]
    ELSE Quiet

\* ISNewSwitch that counts a request before it looks at who claims it.
MyCustomDriver_ISNewSwitch_countsFirst(dev, name, upd) ==
    IF DefaultDevice_ISNewSwitch(dev, name)
    THEN [Quiet EXCEPT !.ret = TRUE, !.base = TRUE, !.count = SayCountN + 1]
    ELSE IF dev # NullDev /\ dev = ThisDev /\ name = "SAY_HELLO"
    THEN LET u == IUUpdateSwitch(SayHelloS, upd)
             index == IUFindOnSwitchIndex(u.S)
             n1 == Notify(NoNotify, "SAY_COUNT")
         IN [Quiet EXCEPT !.ret = TRUE, !.local = TRUE, !.updOk = u.ok,
                          !.logs = IF index \in {0, 1} THEN 1 ELSE 0,
                          !.count = SayCountN + 1,
                          !.S = IUResetSwitch(u.S),
                          !.SP_s = "IPS_IDLE",
                          !.notify = Notify(n1, "SAY_HELLO")]
    ELSE Quiet

\* ISNewSwitch that resets the members before it finds the request is not its own.
MyCustomDriver_ISNewSwitch_resetsUnclaimed(dev, name, upd) ==
    IF DefaultDevice_ISNewSwitch(dev, name)
    THEN [Quiet EXCEPT !.ret = TRUE, !.base = TRUE]
    ELSE IF dev # NullDev /\ dev = ThisDev /\ name = "SAY_HELLO"
    THEN LET u == IUUpdateSwitch(SayHelloS, upd)
             index == IUFindOnSwitchIndex(u.S)
             n1 == Notify(NoNotify, "SAY_COUNT")
         IN [Quiet EXCEPT !.ret = TRUE, !.local = TRUE, !.updOk = u.ok,
                          !.logs = IF index \in {0, 1} THEN 1 ELSE 0,
                          !.count = SayCountN + 1,
                          !.S = IUResetSwitch(u.S),
                          !.SP_s = "IPS_IDLE",
                          !.notify = Notify(n1, "SAY_HELLO")]
    ELSE [Quiet EXCEPT !.SP_s = "IPS_ALERT"]

\* ISNewSwitch that counts a request only when it left a member on.
MyCustomDriver_ISNewSwitch_countsOnlyWhenOn(dev, name, upd) ==
    IF DefaultDevice_ISNewSwitch(dev, name)
    THEN [Quiet EXCEPT !.ret = TRUE, !.base = TRUE]
    ELSE IF dev # NullDev /\ dev = ThisDev /\ name = "SAY_HELLO"
    THEN LET u == IUUpdateSwitch(SayHelloS, upd)
             index == IUFindOnSwitchIndex(u.S)
             n1 == Notify(NoNotify, "SAY_COUNT")
         IN [Quiet EXCEPT !.ret = TRUE, !.local = TRUE, !.updOk = u.ok,
                          !.logs = IF index \in {0, 1} THEN 1 ELSE 0,
                          !.count = IF index \in {0, 1} THEN SayCountN + 1 ELSE SayCountN,
                          !.S = IUResetSwitch(u.S),
                          !.SP_s = "IPS_IDLE",
                          !.notify = Notify(n1, "SAY_HELLO")]
    ELSE Quiet

\* ISNewSwitch that forgets IUResetSwitch.
MyCustomDriver_ISNewSwitch_noReset(dev, name, upd) ==
    IF DefaultDevice_ISNewSwitch(dev, name)
    THEN [Quiet EXCEPT !.ret = TRUE, !.base = TRUE]
    ELSE IF dev # NullDev /\ dev = ThisDev /\ name = "SAY_HELLO"
    THEN LET u == IUUpdateSwitch(SayHelloS, upd)
             index == IUFindOnSwitchIndex(u.S)
             n1 == Notify(NoNotify, "SAY_COUNT")
         IN [Quiet EXCEPT !.ret = TRUE, !.local = TRUE, !.updOk = u.ok,
                          !.logs = IF index \in {0, 1} THEN 1 ELSE 0,
                          !.count = SayCountN + 1,
                          !.S = u.S,
                          !.SP_s = "IPS_IDLE",
                          !.notify = Notify(n1, "SAY_HELLO")]
    ELSE Quiet

\* MyCustomDriver::ISNewSwitch: the inherited handler first, then SAY_HELLO.
MyCustomDriver_ISNewSwitch(dev, name, upd) ==
    IF DefaultDevice_ISNewSwitch(dev, name)
    THEN [Quiet EXCEPT !.ret = TRUE, !.base = TRUE]
    ELSE IF dev # NullDev /\ dev = ThisDev /\ name = "SAY_HELLO"
    THEN LET u == IUUpdateSwitch(SayHelloS, upd)
             index == IUFindOnSwitchIndex(u.S)
             n1 == Notify(NoNotify, "SAY_COUNT")
         IN [Quiet EXCEPT !.ret = TRUE, !.local = TRUE, !.updOk = u.ok,
                          !.logs = IF index \in {0, 1} THEN 1 ELSE 0,
                          !.count = SayCountN + 1,
                          !.S = IUResetSwitch(u.S),
                          !.SP_s = "IPS_IDLE",
                          !.notify = Notify(n1, "SAY_HELLO")]
    ELSE Quiet

\* ISNewText whose local branch also answers to DEVICE_PORT, a name of the
\* inherited handler.
MyCustomDriver_ISNewText_claimsPort(dev, name, upd) ==
    IF dev # NullDev /\ dev = ThisDev /\ name \in {"WHAT_TO_SAY", "DEVICE_PORT"}
    THEN LET u == IUUpdateText(WhatToSayT, upd)
         IN [Quiet EXCEPT !.ret = TRUE, !.local = TRUE, !.updOk = u.ok,
                          !.TP_s = "IPS_IDLE",
                          !.T = u.T,
                          !.notify = Notify(NoNotify, "WHAT_TO_SAY"),
                          !.order = <<"IUUpdateText", "IDSetText", "saveConfig">>,
                          !.saves = <<u.T>>]
    ELSE IF DefaultDevice_ISNewText(dev, name)
    THEN [Quiet EXCEPT !.ret = TRUE, !.base = TRUE]
    ELSE Quiet

\* ISNewText that saves the configuration before it applies the update.
MyCustomDriver_ISNewText_savesFirst(dev, name, upd) ==
    IF dev # NullDev /\ dev = ThisDev /\ name = "WHAT_TO_SAY"
    THEN LET u == IUUpdateText(WhatToSayT, upd)
         IN [Quiet EXCEPT !.ret = TRUE, !.local = TRUE, !.updOk = u.ok,
                          !.TP_s = "IPS_IDLE",
                          !.T = u.T,
                          !.notify = Notify(NoNotify, "WHAT_TO_SAY"),
                          !.order = <<"saveConfig", "IUUpdateText", "IDSetText">>,
                          !.saves = <<WhatToSayT>>]
    ELSE IF DefaultDevice_ISNewText(dev, name)
    THEN [Quiet EXCEPT !.ret = TRUE, !.base = TRUE]
    ELSE Quiet

\* MyCustomDriver::ISNewText: WHAT_TO_SAY first, then the inherited handler.
MyCustomDriver_ISNewText(dev, name, upd) ==
    IF dev # NullDev /\ dev = ThisDev /\ name = "WHAT_TO_SAY"
    THEN LET u == IUUpdateText(WhatToSayT, upd)
         IN [Quiet EXCEPT !.ret = TRUE, !.local = TRUE, !.updOk = u.ok,
                          !.TP_s = "IPS_IDLE",
                          !.T = u.T,
                          !.notify = Notify(NoNotify, "WHAT_TO_SAY"),
                          !.order = <<"IUUpdateText", "IDSetText", "saveConfig">>,
                          !.saves = <<u.T>>]
    ELSE IF DefaultDevice_ISNewText(dev, name)
    THEN [Quiet EXCEPT !.ret = TRUE, !.base = TRUE]
    ELSE Quiet

\* MyCustomDriver does not override ISNewNumber: the inherited handler answers.
MyCustomDriver_ISNewNumber(dev, name) ==
    IF DefaultDevice_ISNewNumber(dev, name)
    THEN [Quiet EXCEPT !.ret = TRUE, !.base = TRUE]
    ELSE Quiet

\* The dummy drivers: an empty local block, then the inherited handler.
Dummy_ISNewSwitch(dev, name, upd) ==
    IF DefaultDevice_ISNewSwitch(dev, name)
    THEN [Quiet EXCEPT !.ret = TRUE, !.base = TRUE]
    ELSE Quiet

Dummy_ISNewText(dev, name, upd) ==
    IF DefaultDevice_ISNewText(dev, name)
    THEN [Quiet EXCEPT !.ret = TRUE, !.base = TRUE]
    ELSE Quiet

Dummy_ISNewNumber(dev, name) ==
    IF DefaultDevice_ISNewNumber(dev, name)
    THEN [Quiet EXCEPT !.ret = TRUE, !.base = TRUE]
    ELSE Quiet

\* --------------------------------------------------------------------- timer

\* TimerHit that forgets SetTimer.
TimerHit_body_noRearm ==
    IF ~isConnected
    THEN [logs |-> 0, setTimer |-> 0]
    ELSE [logs |-> 1, setTimer |-> 0]

\* TimerHit that re-arms before the connection check.
TimerHit_body_rearmsAlways ==
    IF ~isConnected
    THEN [logs |-> 0, setTimer |-> 1]
    ELSE [logs |-> 1, setTimer |-> 1]

\* MyCustomDriver::TimerHit (and the same body in the dummy drivers).
TimerHit_body ==
    IF ~isConnected
    THEN [logs |-> 0, setTimer |-> 0]
    ELSE [logs |-> 1, setTimer |-> 1]

\* DummyGPS declares no TimerHit.
HasTimerHit(d) == d # "DummyGPS"

\* --------------------------------------------------------------- sendCommand

\* The terminating byte of a C string.
NUL == "NUL"

\* char res[8] = {0}.
EmptyRes == [i \in 0..(RES_SIZE - 1) |-> NUL]

\* strncpy(dst, src, n): the bytes of src, then NUL up to n bytes in all.
strncpy(dst, src, n) ==
    [i \in DOMAIN dst |->
        IF i >= n THEN dst[i] ELSE IF i < Len(src) THEN src[i + 1] ELSE NUL]

\* The n bytes of a response the device ends with the stop character.
DeviceBytes(n) == [i \in 1..n |-> IF i = n THEN "#" ELSE "r"]

\* tty_read_section: the bytes read, as far as they fall inside the buffer.
tty_read_section(dst, bytes) ==
    [i \in DOMAIN dst |-> IF i < Len(bytes) THEN bytes[i + 1] ELSE dst[i]]

\* buf[i] = '\0', when i is an index of buf.
Terminate(buf, i) == IF i \in DOMAIN buf THEN [buf EXCEPT ![i] = NUL] ELSE buf

\* The C string a buffer holds from index i on.
RECURSIVE CStr(_, _)
CStr(buf, i) ==
    IF i \notin DOMAIN buf \/ buf[i] = NUL THEN <<>>
    ELSE <<buf[i]>> \o CStr(buf, i + 1)

\* sendCommand that goes on to read after a failed write.
sendCommand_readsAfterFailedWrite(cmd, writeOk, readOk, n) ==
    LET port == IF ~isSimulation THEN 1 ELSE 0 IN
    IF isSimulation
    THEN LET res == Terminate(strncpy(EmptyRes, <<"O", "K", "#">>, RES_SIZE), 3 - 1)
         IN [ret |-> TRUE, logs |-> 0,
             io |-> [NoIO EXCEPT !.index = 3 - 1, !.res = CStr(res, 0)]]
    ELSE IF ~readOk
    THEN [ret |-> FALSE, logs |-> IF writeOk THEN 1 ELSE 2,
          io |-> [NoIO EXCEPT !.flushes = port, !.writes = port, !.reads = 1]]
    ELSE LET res == Terminate(tty_read_section(EmptyRes, DeviceBytes(n)), n - 1)
         IN [ret |-> writeOk, logs |-> IF writeOk THEN 0 ELSE 1,
             io |-> [NoIO EXCEPT !.flushes = port, !.writes = port, !.reads = 1,
                                 !.index = n - 1, !.res = CStr(res, 0),
                                 !.oob = (n > RES_SIZE)]]

\* sendCommand that flushes and writes the port in simulation too.
sendCommand_simWrites(cmd, writeOk, readOk, n) ==
    IF ~writeOk
    THEN [ret |-> FALSE, logs |-> 1,
          io |-> [NoIO EXCEPT !.flushes = 1, !.writes = 1]]
    ELSE IF isSimulation
    THEN LET res == Terminate(strncpy(EmptyRes, <<"O", "K", "#">>, RES_SIZE), 3 - 1)
         IN [ret |-> TRUE, logs |-> 0,
             io |-> [NoIO EXCEPT !.flushes = 1, !.writes = 1,
                                 !.index = 3 - 1, !.res = CStr(res, 0)]]
    ELSE IF ~readOk
    THEN [ret |-> FALSE, logs |-> 1,
          io |-> [NoIO EXCEPT !.flushes = 1, !.writes = 1, !.reads = 1]]
    ELSE LET res == Terminate(tty_read_section(EmptyRes, DeviceBytes(n)), n - 1)
         IN [ret |-> TRUE, logs |-> 0,
             io |-> [NoIO EXCEPT !.flushes = 1, !.writes = 1, !.reads = 1,
                                 !.index = n - 1, !.res = CStr(res, 0),
                                 !.oob = (n > RES_SIZE)]]

\* MyCustomDriver::sendCommand.  writeOk and readOk are the outcomes of
\* tty_write_string and tty_read_section, n the number of bytes the read
\* reports; logs counts the error messages.  Outside simulation the port is
\* flushed and written, and a failed write returns before the read; in
\* simulation the response is the constant "OK#".  The last byte read is
\* overwritten with the terminator; oob says that bytes fell outside res.
sendCommand(cmd, writeOk, readOk, n) ==
    LET port == IF ~isSimulation THEN 1 ELSE 0 IN
    IF ~isSimulation /\ ~writeOk
    THEN [ret |-> FALSE, logs |-> 1,
          io |-> [NoIO EXCEPT !.flushes = port, !.writes = port]]
    ELSE IF isSimulation
    THEN LET res == Terminate(strncpy(EmptyRes, <<"O", "K", "#">>, RES_SIZE), 3 - 1)
         IN [ret |-> TRUE, logs |-> 0,
             io |-> [NoIO EXCEPT !.index = 3 - 1, !.res = CStr(res, 0)]]
    ELSE IF ~readOk
    THEN [ret |-> FALSE, logs |-> 1,
          io |-> [NoIO EXCEPT !.flushes = port, !.writes = port, !.reads = 1]]
    ELSE LET res == Terminate(tty_read_section(EmptyRes, DeviceBytes(n)), n - 1)
         IN [ret |-> TRUE, logs |-> 0,
             io |-> [NoIO EXCEPT !.flushes = port, !.writes = port, !.reads = 1,
                                 !.index = n - 1, !.res = CStr(res, 0),
                                 !.oob = (n > RES_SIZE)]]

\* -------------------------------------------------------------- capabilities

\* The arguments a capability method is called with.
CapabilityArgs == {0, 1}

\* The capability methods of DummyDome that return an IPState.
DummyDome_Capability(method, arg) ==
    CASE method = "Move" -> "IPS_ALERT"
      [] method = "MoveAbs" -> "IPS_ALERT"
      [] method = "MoveRel" -> "IPS_ALERT"
      [] method = "Park" -> "IPS_ALERT"
      [] method = "UnPark" -> "IPS_ALERT"
      [] method = "ControlShutter" -> "IPS_ALERT"

\* The capability methods of DummyFocuser that return an IPState.
DummyFocuser_Capability(method, arg) ==
    CASE method = "MoveFocuser" -> "IPS_OK"
      [] method = "MoveAbsFocuser" -> "IPS_OK"
      [] method = "MoveRelFocuser" -> "IPS_OK"

\* The capability methods of DummyDustcap that return an IPState.
DummyDustcap_Capability(method, arg) ==
    CASE method = "ParkCap" -> "IPS_OK"
      [] method = "UnParkCap" -> "IPS_OK"

\* The capability methods each driver overrides with a stub.
StubMethods(d) ==
    CASE d = "DummyDome" ->
            {"Move", "MoveAbs", "MoveRel", "Park", "UnPark", "ControlShutter"}
      [] d = "DummyFocuser" -> {"MoveFocuser", "MoveAbsFocuser", "MoveRelFocuser"}
      [] d = "DummyDustcap" -> {"ParkCap", "UnParkCap"}
      [] OTHER -> {}

Capability(d, method, arg) ==
    CASE d = "DummyDome" -> DummyDome_Capability(method, arg)
      [] d = "DummyFocuser" -> DummyFocuser_Capability(method, arg)
      [] d = "DummyDustcap" -> DummyDustcap_Capability(method, arg)

\* -------------------------------------------------------------- filter wheel

\* The value the filter interface gives CurrentFilter and TargetFilter, and the
\* slot range its initProperties fills.
DefaultFilter == 1
DefaultSlotMax == 12

\* The filter indexes a client selects.
FilterIndexes == 1..MaxFilter

\* DummyFilterWheel::initProperties: CurrentFilter = 1.
DummyFilterWheel_initProperties == [CurrentFilter |-> 1]

\* DummyFilterWheel::QueryFilter.
DummyFilterWheel_QueryFilter == CurrentFilter

\* SelectFilter that only starts the move and reports nothing yet.
DummyFilterWheel_SelectFilter_asynchronous(index) ==
    [ret |-> TRUE, TargetFilter |-> index, CurrentFilter |-> CurrentFilter,
     order |-> <<>>, done |-> <<>>]

\* DummyFilterWheel::SelectFilter: TargetFilter = index, CurrentFilter =
\* TargetFilter, SelectFilterDone(index), return true.
DummyFilterWheel_SelectFilter(index) ==
    LET target == index
        current == target
    IN [ret |-> TRUE, TargetFilter |-> target, CurrentFilter |-> current,
        order |-> <<"SelectFilterDone">>, done |-> <<index>>]

\* ------------------------------------------------------------- configuration

\* MyCustomDriver::ISGetProperties: the inherited handling, then loadConfig of
\* WHAT_TO_SAY, whatever dev is.
MyCustomDriver_ISGetProperties(dev) ==
    [order |-> <<"DefaultDevice::ISGetProperties", "loadConfig">>,
     loads |-> {"WHAT_TO_SAY"}]

\* The dummy drivers: the inherited handling only.
Dummy_ISGetProperties(dev) ==
    [order |-> <<"DefaultDevice::ISGetProperties">>, loads |-> {}]

\* loadConfig of one text property: the text the file holds for it, if any.
loadConfig(text, file) == IF file = "none" THEN text ELSE file

\* saveConfig of one text property: the file holds its text.
saveConfig(file, saves) == IF saves = <<>> THEN file ELSE saves[Len(saves)]

\* ------------------------------------------------------------------ init

Init ==
    /\ driver \in Drivers
    /\ inited = FALSE
    /\ sim \in BOOLEAN
    /\ conn = "Disconnected"
    /\ connFD = NoFD
    /\ PortFD = NoFD
    /\ published = {}
    /\ definedOnConnect = {}
    /\ deletedOnDisconnect = {}
    /\ wasConnected = FALSE
    /\ SayHelloS = AllOff
    /\ SayHelloSP_s = "IPS_IDLE"
    /\ WhatToSayT = "Hello, world!"
    /\ WhatToSayTP_s = "IPS_IDLE"
    /\ SayCountN = 0
    /\ SayCountNP_s = "IPS_IDLE"
    /\ timerArmed = FALSE
    /\ filled = Unfilled
    /\ alive = TRUE
    /\ helloClaims = 0
    /\ config \in IF driver = "MyCustomDriver" THEN {"none", "Hi"} ELSE {"none"}
    /\ CurrentFilter = DefaultFilter
    /\ TargetFilter = DefaultFilter
    /\ FilterSlotN_min = DefaultFilter
    /\ FilterSlotN_max = DefaultSlotMax
    /\ last = Event("none", "-", "-")

DoInitProperties ==
    /\ ~inited
    /\ inited' = TRUE
    /\ LET r == initProperties IN
        /\ SayHelloS' = r.SayHelloS
        /\ SayHelloSP_s' = r.SayHelloSP_s
        /\ WhatToSayT' = r.WhatToSayT
        /\ WhatToSayTP_s' = r.WhatToSayTP_s
        /\ SayCountN' = r.SayCountN
        /\ SayCountNP_s' = r.SayCountNP_s
        /\ published' = published \cup Range(r.defines)
        /\ filled' = IF driver = "MyCustomDriver" THEN Fill(filled, r.fills) ELSE filled
    /\ CurrentFilter' = IF driver = "DummyFilterWheel"
                        THEN DummyFilterWheel_initProperties.CurrentFilter
                        ELSE CurrentFilter
    /\ last' = Event("initProperties", "-", "-")
    /\ UNCHANGED <<driver, link, definedOnConnect, deletedOnDisconnect, wasConnected,
                   timerArmed, alive, helloClaims, config, TargetFilter, slots>>

\* ---------------------------------------------------------------- requests

ISStates == {"ISS_ON", "ISS_OFF"}

\* All sequences over S of length at most n.
RECURSIVE SeqsUpTo(_, _)
SeqsUpTo(S, n) ==
    IF n = 0 THEN {<<>>}
    ELSE LET shorter == SeqsUpTo(S, n - 1)
         IN shorter \cup {Append(q, x) : q \in shorter, x \in S}

SwitchNames ==
    {"SAY_HELLO", "WHAT_TO_SAY", "SAY_COUNT", "CONNECTION", "SIMULATION", "DEBUG",
     "NO_SUCH_PROPERTY"}
TextNames == {"WHAT_TO_SAY", "SAY_HELLO", "DEVICE_PORT", "NO_SUCH_PROPERTY"}
NumberNames == {"SAY_COUNT", "POLLING_PERIOD", "NO_SUCH_PROPERTY"}

\* A client names each member at most once in a request.
NoRepeat(batches) ==
    {q \in batches : \A i, j \in 1..Len(q) : i # j => q[i][1] # q[j][1]}

\* The member updates a client sends for SAY_HELLO and for WHAT_TO_SAY.
SayHelloBatches ==
    NoRepeat(SeqsUpTo(({"SAY_HELLO_DEFAULT"} \X ISStates)
                        \cup ({"SAY_HELLO_CUSTOM", "NO_SUCH_MEMBER"} \X {"ISS_ON"}),
                      MaxMembers))
WhatToSayBatches ==
    NoRepeat(SeqsUpTo(({"WHAT_TO_SAY"} \X Texts) \cup {<<"NO_SUCH_MEMBER", "Hi">>},
                      MaxMembers))

\* The member updates a client sends with a switch request.
SwitchUpdates(name) ==
    CASE name = "CONNECTION" ->
            {<<<<"CONNECT", "ISS_ON">>>>, <<<<"DISCONNECT", "ISS_ON">>>>}
      [] name = "SIMULATION" ->
            {<<<<"ENABLE", "ISS_ON">>>>, <<<<"DISABLE", "ISS_ON">>>>}
      [] name = "SAY_HELLO" ->
            SayHelloBatches
      [] OTHER -> {<<>>, <<<<"SAY_HELLO_DEFAULT", "ISS_ON">>>>}

\* The member updates a client sends with a text request.
TextUpdates(name) ==
    IF name = "WHAT_TO_SAY"
    THEN WhatToSayBatches
    ELSE {<<>>, <<<<"WHAT_TO_SAY", "Hi">>>>}

\* The batches with one member that is on (or one text).
Short(updates) == {u \in updates : Len(u) = 1 /\ u[1][2] \in {"ISS_ON", "Hi"}}

\* Only MyCustomDriver reads the members of a request, and only of one for its
\* own device: for the other requests one short batch stands for all.
SwitchUpdatesFor(d, dev, name) ==
    IF d = "MyCustomDriver" /\ dev = ThisDev
    THEN SwitchUpdates(name) ELSE Short(SwitchUpdates(name))
TextUpdatesFor(d, dev, name) ==
    IF d = "MyCustomDriver" /\ dev = ThisDev
    THEN TextUpdates(name) ELSE Short(TextUpdates(name))

IsOn(upd, member) == \E i \in 1..Len(upd) : upd[i] = <<member, "ISS_ON">>

\* The text a batch carries for the member WHAT_TO_SAY (the last one), or "-".
TextFor(upd) ==
    LET at == {i \in 1..Len(upd) : upd[i][1] = "WHAT_TO_SAY"}
    IN IF at = {} THEN "-" ELSE upd[CHOOSE i \in at : \A j \in at : j <= i][2]

\* --------------------------------------------------------------- entry points

\* The event loop hands out one entry point at a time, and none while a
\* connection attempt is inside the connection plugin.
AtRest == alive /\ inited /\ conn \in {"Disconnected", "Connected"}

\* The entry point that is on the call stack when another one starts: the
\* connection attempt, and the Handshake the plugin calls in it, run inside
\* the inherited switch handler that ISNewSwitch called for CONNECTION.
Running == IF conn \in {"Connecting", "Handshaking"} THEN "ISNewSwitch" ELSE "none"

\* The property fields after a handler's result r and the calls of an
\* updateProperties made in the same entry point: a property the calls set
\* back starts again from the values initProperties gives it.
SetProps(r, calls) ==
    LET i == initProperties IN
    /\ SayHelloS' = IF "SAY_HELLO" \in calls.resets THEN i.SayHelloS ELSE r.S
    /\ SayHelloSP_s' = IF "SAY_HELLO" \in calls.resets THEN i.SayHelloSP_s ELSE r.SP_s
    /\ WhatToSayT' = IF "WHAT_TO_SAY" \in calls.resets THEN i.WhatToSayT ELSE r.T
    /\ WhatToSayTP_s' =
            IF "WHAT_TO_SAY" \in calls.resets THEN i.WhatToSayTP_s ELSE r.TP_s
    /\ SayCountN' = IF "SAY_COUNT" \in calls.resets THEN i.SayCountN ELSE r.count
    /\ SayCountNP_s' =
            IF "SAY_COUNT" \in calls.resets THEN i.SayCountNP_s ELSE SayCountNP_s

Driver_ISNewSwitch(d, dev, name, upd) ==
    IF d = "MyCustomDriver" THEN MyCustomDriver_ISNewSwitch(dev, name, upd)
    ELSE Dummy_ISNewSwitch(dev, name, upd)

Driver_ISNewText(d, dev, name, upd) ==
    IF d = "MyCustomDriver" THEN MyCustomDriver_ISNewText(dev, name, upd)
    ELSE Dummy_ISNewText(dev, name, upd)

Driver_ISNewNumber(d, dev, name) ==
    IF d = "MyCustomDriver" THEN MyCustomDriver_ISNewNumber(dev, name)
    ELSE Dummy_ISNewNumber(dev, name)

\* What a handler's result, and the updateProperties calls made inside the
\* same entry point, leave in the property fields and the observation.
Apply(op, dev, name, arg, r, calls) ==
    /\ SetProps(r, calls)
    /\ last' = [Event(op, dev, name) EXCEPT
                    !.ret = r.ret, !.local = r.local, !.base = r.base,
                    !.updOk = r.updOk, !.notify = r.notify, !.logs = r.logs,
                    !.connected = isConnected, !.arg = arg,
                    !.regErr = RegistryErrors(published, calls),
                    !.within = Running, !.order = r.order]

\* The updateProperties calls the inherited switch handler makes: a DISCONNECT
\* of the CONNECTION switch disconnects if the device is connected, and marks
\* the device disconnected and calls updateProperties in either case.
DefaultDevice_SwitchCalls(name, upd) ==
    IF name = "CONNECTION" /\ IsOn(upd, "DISCONNECT")
    THEN updateProperties(driver, FALSE)
    ELSE NoCalls

\* The inherited switch handling of the controls it owns: CONNECTION starts a
\* connection attempt or disconnects (and then calls updateProperties),
\* SIMULATION sets the flag.
DefaultDevice_SwitchEffect(name, upd) ==
    IF name = "CONNECTION" /\ IsOn(upd, "CONNECT") /\ conn = "Disconnected"
    THEN /\ conn' = "Connecting"
         /\ UNCHANGED <<sim, connFD, PortFD, registry, timerArmed>>
    ELSE IF name = "CONNECTION" /\ IsOn(upd, "DISCONNECT")
    THEN LET calls == DefaultDevice_SwitchCalls(name, upd) IN
         /\ conn' = "Disconnected"
         /\ connFD' = NoFD
         /\ published' = Registry(published, calls)
         /\ deletedOnDisconnect' = Range(calls.deletes)
         /\ UNCHANGED <<sim, PortFD, definedOnConnect, wasConnected, timerArmed>>
    ELSE IF name = "SIMULATION"
    THEN /\ sim' = IsOn(upd, "ENABLE")
         /\ UNCHANGED <<conn, connFD, PortFD, registry, timerArmed>>
    ELSE UNCHANGED <<link, registry, timerArmed>>

ISNewSwitch(dev, name, upd) ==
    /\ AtRest
    /\ LET r == Driver_ISNewSwitch(driver, dev, name, upd) IN
        /\ r.count <= MaxCount
        /\ Apply("ISNewSwitch", dev, name, "-", r,
                 IF r.base THEN DefaultDevice_SwitchCalls(name, upd) ELSE NoCalls)
        /\ IF r.base
           THEN DefaultDevice_SwitchEffect(name, upd)
           ELSE UNCHANGED <<link, registry, timerArmed>>
        /\ helloClaims' = IF r.local THEN helloClaims + 1 ELSE helloClaims
    /\ UNCHANGED <<driver, inited, filled, alive, config, wheel>>

ISNewText(dev, name, upd) ==
    /\ AtRest
    /\ LET r == Driver_ISNewText(driver, dev, name, upd) IN
        /\ Apply("ISNewText", dev, name, TextFor(upd), r, NoCalls)
        /\ config' = saveConfig(config, r.saves)
    /\ UNCHANGED <<driver, inited, link, registry, timerArmed, filled, alive,
                   helloClaims, wheel>>

ISNewNumber(dev, name) ==
    /\ AtRest
    /\ Apply("ISNewNumber", dev, name, "-",
             Driver_ISNewNumber(driver, dev, name), NoCalls)
    /\ UNCHANGED <<driver, inited, link, registry, timerArmed, filled, alive, extra>>

\* The connection plugin opens the transport; simulation opens nothing.
TransportConnect(ok) ==
    /\ conn = "Connecting"
    /\ IF sim
       THEN ok /\ conn' = "Handshaking" /\ connFD' \in {NoFD, OpenFD}
       ELSE IF ok
       THEN conn' = "Handshaking" /\ connFD' = OpenFD
       ELSE conn' = "Disconnected" /\ connFD' = NoFD
    /\ UNCHANGED <<driver, inited, props, sim, PortFD, registry, timerArmed, filled,
                   alive, extra, last>>

\* The plugin calls the registered Handshake; true marks the device connected,
\* publishes through updateProperties and starts the polling timer (TimerHit's
\* comment: without SetTimer it is not called again "until we disconnect and
\* reconnect"), false aborts the attempt.
DoHandshake ==
    /\ conn = "Handshaking"
    /\ LET h == Handshake(driver)
           calls == IF h.ret THEN updateProperties(driver, TRUE) ELSE NoCalls
           range == IF driver = "DummyFilterWheel" THEN h
                    ELSE [min |-> FilterSlotN_min, max |-> FilterSlotN_max,
                          order |-> <<>>]
       IN
        /\ PortFD' = h.PortFD
        /\ last' = [Event("Handshake", "-", "-") EXCEPT
                        !.ret = h.ret, !.logs = h.logs, !.portReads = h.portReads,
                        !.regErr = RegistryErrors(published, calls),
                        !.within = Running, !.reconnect = wasConnected,
                        !.order = range.order]
        /\ FilterSlotN_min' = range.min
        /\ FilterSlotN_max' = range.max
        /\ SetProps(Quiet, calls)
        /\ IF h.ret
           THEN /\ conn' = "Connected"
                /\ published' = Registry(published, calls)
                /\ definedOnConnect' = Range(calls.defines)
                /\ wasConnected' = TRUE
                /\ timerArmed' = HasTimerHit(driver)
                /\ UNCHANGED <<connFD, deletedOnDisconnect>>
           ELSE /\ conn' = "Disconnected"
                /\ connFD' = NoFD
                /\ UNCHANGED <<registry, timerArmed>>
    /\ UNCHANGED <<driver, inited, sim, filled, alive, helloClaims, config,
                   CurrentFilter, TargetFilter>>

\* The pending timer fires and the framework calls TimerHit.
TimerHit ==
    /\ AtRest
    /\ HasTimerHit(driver)
    /\ timerArmed
    /\ LET r == TimerHit_body IN
        /\ timerArmed' = (r.setTimer > 0)
        /\ last' = [Event("TimerHit", "-", "-") EXCEPT
                        !.logs = r.logs, !.setTimer = r.setTimer,
                        !.connected = isConnected, !.within = Running]
    /\ UNCHANGED <<driver, inited, props, link, registry, filled, alive, extra>>

\* A caller inside the driver sends a command to the device.  A response
\* longer than res writes outside the buffer: the call may return as if
\* nothing had happened, or the process is aborted.
SendCommand(cmd, writeOk, readOk, n) ==
    /\ AtRest
    /\ driver = "MyCustomDriver"
    /\ writeOk => PortFD # NoFD
    /\ LET r == sendCommand(cmd, writeOk, readOk, n) IN
        \E aborted \in IF r.io.oob THEN BOOLEAN ELSE {FALSE} :
            /\ alive' = ~aborted
            /\ last' = [Event("sendCommand", "-", cmd) EXCEPT
                            !.ret = r.ret /\ ~aborted, !.logs = r.logs, !.io = r.io,
                            !.writeOk = writeOk, !.readOk = readOk,
                            !.connected = isConnected, !.within = Running]
    /\ UNCHANGED <<driver, inited, props, link, registry, timerArmed, filled, extra>>

\* The framework calls a capability method of a connected device.
CallCapability(method, arg) ==
    /\ AtRest
    /\ isConnected
    /\ method \in StubMethods(driver)
    /\ last' = [Event("Capability", "-", method) EXCEPT
                    !.state = Capability(driver, method, arg),
                    !.connected = isConnected, !.within = Running]
    /\ UNCHANGED <<driver, inited, props, link, registry, timerArmed, filled, alive,
                   extra>>

Driver_ISGetProperties(d, dev) ==
    IF d = "MyCustomDriver" THEN MyCustomDriver_ISGetProperties(dev)
    ELSE Dummy_ISGetProperties(dev)

\* A client asks for the properties: the inherited handling announces them,
\* and what the handler loads from the configuration file replaces the value.
ISGetProperties(dev) ==
    /\ AtRest
    /\ LET r == Driver_ISGetProperties(driver, dev) IN
        /\ WhatToSayT' = IF "WHAT_TO_SAY" \in r.loads
                         THEN loadConfig(WhatToSayT, config) ELSE WhatToSayT
        /\ last' = [Event("ISGetProperties", dev, "-") EXCEPT
                        !.order = r.order, !.connected = isConnected,
                        !.within = Running]
    /\ UNCHANGED <<driver, inited, SayHelloS, SayHelloSP_s, WhatToSayTP_s, SayCountN,
                   SayCountNP_s, link, registry, timerArmed, filled, alive, extra>>

\* The framework moves the wheel of a connected filter wheel.
CallSelectFilter(index) ==
    /\ AtRest
    /\ isConnected
    /\ driver = "DummyFilterWheel"
    /\ LET r == DummyFilterWheel_SelectFilter(index) IN
        /\ TargetFilter' = r.TargetFilter
        /\ CurrentFilter' = r.CurrentFilter
        /\ last' = [Event("SelectFilter", "-", "-") EXCEPT
                        !.ret = r.ret, !.order = r.order, !.index = index,
                        !.done = r.done,
                        !.connected = isConnected, !.within = Running]
    /\ UNCHANGED <<driver, inited, props, link, registry, timerArmed, filled, alive,
                   helloClaims, config, slots>>

\* The framework asks the filter wheel where it is.
CallQueryFilter ==
    /\ AtRest
    /\ driver = "DummyFilterWheel"
    /\ last' = [Event("QueryFilter", "-", "-") EXCEPT
                    !.index = DummyFilterWheel_QueryFilter,
                    !.connected = isConnected, !.within = Running]
    /\ UNCHANGED <<driver, inited, props, link, registry, timerArmed, filled, alive,
                   extra>>

Methods == UNION {StubMethods(d) : d \in Drivers}

\* What the port can do to one command: the write fails, the read fails, or
\* both succeed and the read reports n bytes.
PortOutcomes ==
    {[writeOk |-> FALSE, readOk |-> TRUE, n |-> 1],
     [writeOk |-> TRUE, readOk |-> FALSE, n |-> 1]}
        \cup {[writeOk |-> TRUE, readOk |-> TRUE, n |-> n] : n \in ReadLens}

Next ==
    \/ DoInitProperties
    \/ \E dev \in Devs, name \in SwitchNames :
            \E upd \in SwitchUpdatesFor(driver, dev, name) : ISNewSwitch(dev, name, upd)
    \/ \E dev \in Devs, name \in TextNames :
            \E upd \in TextUpdatesFor(driver, dev, name) : ISNewText(dev, name, upd)
    \/ \E dev \in Devs, name \in NumberNames : ISNewNumber(dev, name)
    \/ \E ok \in BOOLEAN : TransportConnect(ok)
    \/ DoHandshake
    \/ TimerHit
    \/ \E cmd \in Cmds, o \in PortOutcomes :
            SendCommand(cmd, o.writeOk, o.readOk, o.n)
    \/ \E method \in Methods, arg \in CapabilityArgs : CallCapability(method, arg)
    \/ \E dev \in Devs : ISGetProperties(dev)
    \/ \E index \in FilterIndexes : CallSelectFilter(index)
    \/ CallQueryFilter

Spec == Init /\ [][Next]_vars
\* --------------------------------------------------------------------- claims

\* The properties each driver shows only while connected.
ConnectionScoped(d) ==
    CASE d = "MyCustomDriver" -> LocalProps
      [] d = "DummyDustcap" -> CapProps
      [] OTHER -> {}

DispatchOps == {"ISNewSwitch", "ISNewText", "ISNewNumber"}

\* Every name some handler of the device answers to.
RegisteredNames == LocalProps \cup BaseSwitchNames \cup BaseTextNames \cup BaseNumberNames

\* C1: for every driver, what updateProperties deleted at the latest disconnect
\* is exactly what it defined at the connect before it, and once the device has
\* been connected and is no longer, no driver-defined property is published.
C1_DefineDeleteSymmetry ==
    (wasConnected /\ conn # "Connected") =>
        /\ deletedOnDisconnect = definedOnConnect
        /\ published = {}

\* C1 witness: a driver with properties of its own went through a connect and a disconnect.
C1_Witness ==
    /\ wasConnected
    /\ conn = "Disconnected"
    /\ deletedOnDisconnect = LocalProps

\* C2: in every reachable state a connection-scoped property of the driver is
\* visible only if defineProperty published it and the device is connected.
C2_VisibleOnlyConnected ==
    \A p \in LocalProps \cup CapProps :
        p \in published => (p \in definedOnConnect /\ conn = "Connected")

\* C2 witness: connected, all three properties visible, after a dispatch.
C2_Witness ==
    /\ conn = "Connected"
    /\ published = LocalProps
    /\ last.op = "ISNewText"
    /\ last.local

\* C3: with the simulation flag set, the Handshake of every driver returns true
\* and does not read the transport, whatever the descriptors are.
C3_SimulationHandshake ==
    (last.op = "Handshake" /\ sim) => (last.ret /\ last.portReads = 0)

\* C3 witness: a simulated Handshake ran with no open port.
C3_Witness ==
    /\ last.op = "Handshake"
    /\ sim
    /\ connFD = NoFD
    /\ driver = "MyCustomDriver"

\* The connection state changes the lifecycle allows.
ConnectionSteps ==
    {<<"Disconnected", "Connecting">>, <<"Connecting", "Handshaking">>,
     <<"Connecting", "Disconnected">>, <<"Handshaking", "Connected">>,
     <<"Handshaking", "Disconnected">>, <<"Connected", "Disconnected">>}

\* C4: the connection state moves only along Disconnected -> Connecting ->
\* Handshaking -> Connected -> Disconnected (an aborted attempt falls back to
\* Disconnected); the device becomes Connected only from Handshaking with a
\* Handshake that returned true, and then the driver's connection-scoped
\* properties are published; a Handshake that returned false leaves the device
\* Disconnected with nothing published.
C4_ConnectionOrder ==
    [][ /\ (conn' # conn => <<conn, conn'>> \in ConnectionSteps)
        /\ (conn' = "Connected" /\ conn # "Connected" =>
                /\ conn = "Handshaking"
                /\ last'.op = "Handshake"
                /\ last'.ret
                /\ ConnectionScoped(driver) \subseteq published')
        /\ (conn = "Handshaking" /\ conn' # "Handshaking" /\ ~last'.ret =>
                /\ conn' = "Disconnected"
                /\ published' = {}) ]_vars

\* C4 witness: connected right after a successful Handshake, properties published.
C4_Witness ==
    /\ conn = "Connected"
    /\ last.op = "Handshake"
    /\ last.ret
    /\ published = LocalProps

C6_IdleNotifiedOnce ==
    (last.op = "ISNewSwitch" /\ last.local /\ last.updOk) =>
        /\ SayHelloSP_s = "IPS_IDLE"
        /\ last.notify["SAY_HELLO"] = 1

\* C6 witness: a successful SAY_HELLO update happened.
C6_Witness ==
    /\ last.op = "ISNewSwitch"
    /\ last.local
    /\ last.updOk
    /\ last.logs = 1

\* C7: a TimerHit while connected calls SetTimer exactly once and leaves the
\* timer armed; a TimerHit while disconnected does nothing: no SetTimer, no
\* log, no change of any property, of the link or of the registry.
C7_TimerHit ==
    [][ last'.op = "TimerHit" =>
            IF isConnected
            THEN last'.setTimer = 1 /\ timerArmed'
            ELSE /\ last'.setTimer = 0
                 /\ last'.logs = 0
                 /\ UNCHANGED <<props, link, registry>> ]_vars

\* C7 witness: a TimerHit ran while connected and re-armed.
C7_Witness ==
    /\ last.op = "TimerHit"
    /\ last.connected
    /\ last.setTimer = 1
    /\ timerArmed

\* C8 as stated: after every TimerHit, whichever path it took, the timer is armed again.
C8_RearmsOnEveryPath ==
    last.op = "TimerHit" => timerArmed

\* C8 as amended: after a TimerHit the timer is armed again exactly when the
\* device was connected; the early return taken when disconnected does not re-arm.
C8_RearmsOnlyConnected ==
    last.op = "TimerHit" => (timerArmed <=> last.connected)

\* C8 witness: a TimerHit took the early return and left the timer stopped.
C8_Witness ==
    /\ last.op = "TimerHit"
    /\ ~last.connected
    /\ ~timerArmed

\* C9: a switch request naming a property the driver has not registered is
\* unclaimed, changes no property state or value and notifies no client.
C9_UnregisteredSwitch ==
    [][ (last'.op = "ISNewSwitch" /\ last'.name \notin RegisteredNames) =>
            /\ ~last'.ret
            /\ UNCHANGED props
            /\ last'.notify = NoNotify ]_vars

\* C9 witness: an unregistered name was sent to this device after the counter moved.
C9_Witness ==
    /\ last.op = "ISNewSwitch"
    /\ last.name = "NO_SUCH_PROPERTY"
    /\ last.dev = ThisDev
    /\ driver = "MyCustomDriver"
    /\ SayCountN > 0

\* The state field of the local property a request names.
StateOf(name) == IF name = "SAY_HELLO" THEN SayHelloSP_s ELSE WhatToSayTP_s

\* C10: a request for a local property is claimed whether or not the member
\* update succeeded, and the state field tells the outcome: after a failed
\* update it is not the idle state a successful update leaves.
C10_OutcomeInState ==
    (last.op \in {"ISNewSwitch", "ISNewText"} /\ last.local) =>
        /\ last.ret
        /\ (~last.updOk => StateOf(last.name) # "IPS_IDLE")

\* C11: a claimed WHAT_TO_SAY text request leaves the state idle, the text the
\* request carries for WHAT_TO_SAY in the property, and exactly one message for
\* WHAT_TO_SAY and none for another property; and every locally claimed request
\* has sent a message for the property it names.
C11_ClaimedTextApplied ==
    /\ (last.op = "ISNewText" /\ last.local /\ last.ret) =>
            /\ last.name = "WHAT_TO_SAY"
            /\ WhatToSayTP_s = "IPS_IDLE"
            /\ last.notify = Notify(NoNotify, "WHAT_TO_SAY")
            /\ (last.arg # "-" => WhatToSayT = last.arg)
    /\ (last.op \in DispatchOps /\ last.local /\ last.ret) =>
            last.notify[last.name] >= 1

\* C12: every capability stub that returns a completion state returns the alert
\* state, in every driver and for every argument.
C12_StubsReturnAlert ==
    last.op = "Capability" => last.state = "IPS_ALERT"

\* A port operation of sendCommand that was made and failed.
WriteFailed == last.io.writes >= 1 /\ ~last.writeOk
ReadFailed == last.io.reads >= 1 /\ ~last.readOk

\* C13: outside simulation sendCommand writes the port once and reads it at most
\* once; a failed write returns false with no read made, a failed read returns
\* false, and true is returned only after a write and a read that both succeeded.
C13_SendCommandErrors ==
    (last.op = "sendCommand" /\ ~sim) =>
        /\ last.io.writes = 1
        /\ last.io.reads <= 1
        /\ (~last.writeOk => (~last.ret /\ last.io.reads = 0))
        /\ (ReadFailed => ~last.ret)
        /\ (last.ret => (last.writeOk /\ last.readOk /\ last.io.reads = 1))

\* C13 witness: connected on an open port, a write failed.
C13_Witness ==
    /\ last.op = "sendCommand"
    /\ ~sim
    /\ conn = "Connected"
    /\ PortFD = OpenFD
    /\ WriteFailed

\* C14: in simulation sendCommand flushes, writes and reads nothing, returns
\* true and leaves the response "OK", whatever the command and the port.
C14_SimulationBypass ==
    (last.op = "sendCommand" /\ sim) =>
        /\ last.ret
        /\ last.io.flushes = 0
        /\ last.io.writes = 0
        /\ last.io.reads = 0
        /\ last.io.res = <<"O", "K">>

\* C14 witness: a simulated command with no port open.
C14_Witness ==
    /\ last.op = "sendCommand"
    /\ sim
    /\ PortFD = NoFD
    /\ last.name = "STATUS#"

\* C15: a step that publishes SAY_HELLO, WHAT_TO_SAY or SAY_COUNT starts in a
\* state where initProperties has run and has filled the members of that
\* property and then its vector.
C15_FilledBeforeDefined ==
    [][ \A p \in LocalProps :
            (p \in published' /\ p \notin published) =>
                (inited /\ filled[p] = "vector") ]_vars

\* C15 witness: the three properties are published and were filled in order.
C15_Witness ==
    /\ published = LocalProps
    /\ \A p \in LocalProps : filled[p] = "vector"
    /\ last.op = "Handshake"

\* C16: no entry point defines a property that is defined or deletes one that
\* is not.
C16_NoRegistryMisuse ==
    last.regErr = "none"

\* C17: a sendCommand whose write or read failed, and a request that no handler
\* claimed, leave the connection state, the published set and every property
\* value as they were, and the driver still takes events.
C17_FailureIsScoped ==
    [][ ( \/ (last'.op = "sendCommand" /\ (WriteFailed' \/ ReadFailed'))
          \/ (last'.op \in DispatchOps /\ ~last'.ret) ) =>
            /\ UNCHANGED <<props, conn, published>>
            /\ AtRest' ]_vars

\* C17 witness: connected, with the counter moved, a read failed.
C17_Witness ==
    /\ last.op = "sendCommand"
    /\ ReadFailed
    /\ ~last.ret
    /\ conn = "Connected"
    /\ published = LocalProps
    /\ SayCountN > 0

\* C18: no step of a disconnect or of a connect changes a value, a state or
\* the shape of SAY_HELLO, WHAT_TO_SAY or SAY_COUNT: what is published again
\* after a reconnect is what was there before the disconnect.
C18_TeardownOnlyHides ==
    [][ (conn' # conn \/ (last'.op = "Handshake" /\ last' # last)) =>
            UNCHANGED <<props, filled>> ]_vars

\* C18 witness: connected again, with a text and a count that are not the initial ones.
C18_Witness ==
    /\ last.op = "Handshake"
    /\ last.reconnect
    /\ conn = "Connected"
    /\ published = LocalProps
    /\ WhatToSayT = "Hi"
    /\ SayCountN > 0

\* ISNewSwitch in the order of ISNewText: the local branch first.
MyCustomDriver_ISNewSwitch_localFirst(dev, name, upd) ==
    IF dev # NullDev /\ dev = ThisDev /\ name = "SAY_HELLO"
    THEN LET u == IUUpdateSwitch(SayHelloS, upd)
             index == IUFindOnSwitchIndex(u.S)
             n1 == Notify(NoNotify, "SAY_COUNT")
         IN [Quiet EXCEPT !.ret = TRUE, !.local = TRUE, !.updOk = u.ok,
                          !.logs = IF index \in {0, 1} THEN 1 ELSE 0,
                          !.count = SayCountN + 1,
                          !.S = IUResetSwitch(u.S),
                          !.SP_s = "IPS_IDLE",
                          !.notify = Notify(n1, "SAY_HELLO")]
    ELSE IF DefaultDevice_ISNewSwitch(dev, name)
    THEN [Quiet EXCEPT !.ret = TRUE, !.base = TRUE]
    ELSE Quiet

\* ISNewText in the order of ISNewSwitch: the inherited handler first.
MyCustomDriver_ISNewText_baseFirst(dev, name, upd) ==
    IF DefaultDevice_ISNewText(dev, name)
    THEN [Quiet EXCEPT !.ret = TRUE, !.base = TRUE]
    ELSE IF dev # NullDev /\ dev = ThisDev /\ name = "WHAT_TO_SAY"
    THEN LET u == IUUpdateText(WhatToSayT, upd)
         IN [Quiet EXCEPT !.ret = TRUE, !.local = TRUE, !.updOk = u.ok,
                          !.TP_s = "IPS_IDLE",
                          !.T = u.T,
                          !.notify = Notify(NoNotify, "WHAT_TO_SAY"),
                          !.order = <<"IUUpdateText", "IDSetText", "saveConfig">>,
                          !.saves = <<u.T>>]
    ELSE Quiet

\* C19: in every reachable state of MyCustomDriver and for every request, each
\* handler gives the result (claimed or not, by whom, property fields,
\* messages) it would give with the inherited handler and the local branch in
\* the other order.
C19_OrderNotLoadBearing ==
    driver = "MyCustomDriver" =>
        \A dev \in Devs :
            /\ \A name \in SwitchNames : \A upd \in SwitchUpdatesFor(driver, dev, name) :
                    MyCustomDriver_ISNewSwitch(dev, name, upd)
                        = MyCustomDriver_ISNewSwitch_localFirst(dev, name, upd)
            /\ \A name \in TextNames : \A upd \in TextUpdatesFor(driver, dev, name) :
                    MyCustomDriver_ISNewText(dev, name, upd)
                        = MyCustomDriver_ISNewText_baseFirst(dev, name, upd)

\* C19 witness: the inherited text handler claimed a request after the local
\* branch had passed on it, in a state the local switch branch has changed.
C19_Witness ==
    /\ driver = "MyCustomDriver"
    /\ last.op = "ISNewText"
    /\ last.base
    /\ last.name = "DEVICE_PORT"
    /\ SayCountN > 0

EntryPoints == DispatchOps \cup {"TimerHit", "Handshake"}

C21_CountsClaimedRequests ==
    [][/\ (last'.op = "ISNewSwitch" /\ last'.local) =>
            /\ SayCountN' = SayCountN + 1
            /\ last'.notify["SAY_COUNT"] = 1
       /\ ~(last'.op = "ISNewSwitch" /\ last'.local) => SayCountN' = SayCountN
       /\ SayCountN' = helloClaims']_vars

C21_Witness ==
    /\ last.op = "ISNewSwitch"
    /\ last.local
    /\ last.logs = 0
    /\ helloClaims = 2
    /\ SayCountN = 2
    /\ conn = "Connected"

\* C22: in every state between two steps every member of SAY_HELLO is off and
\* the state of the property is idle, so at most one member is on.
C22_MomentaryButton ==
    /\ SayHelloS = AllOff
    /\ SayHelloSP_s = "IPS_IDLE"
    /\ Cardinality({m \in DOMAIN SayHelloS : SayHelloS[m] = "ISS_ON"}) <= 1

C22_Witness ==
    /\ last.op = "ISNewSwitch"
    /\ last.local
    /\ last.updOk
    /\ last.logs = 1
    /\ helloClaims = 2
    /\ SayHelloS = AllOff

\* C23: a locally claimed ISNewText updates, notifies and then saves, once
\* each and in this order, and the file then holds the text the property
\* holds (the text of the request when the update was applied); only such a
\* step changes the file; ISGetProperties of MyCustomDriver loads after the
\* inherited handling and leaves the property with the text of the file.
C23_SavedAndRestored ==
    [][/\ (last'.op = "ISNewText" /\ last'.local) =>
            /\ last'.order = <<"IUUpdateText", "IDSetText", "saveConfig">>
            /\ last'.notify["WHAT_TO_SAY"] = 1
            /\ config' = WhatToSayT'
            /\ last'.updOk /\ last'.arg # "-" => config' = last'.arg
       /\ ~(last'.op = "ISNewText" /\ last'.local) => config' = config
       /\ (last'.op = "ISGetProperties" /\ driver = "MyCustomDriver") =>
            /\ last'.order = <<"DefaultDevice::ISGetProperties", "loadConfig">>
            /\ config # "none" => WhatToSayT' = config
            /\ config = "none" => WhatToSayT' = WhatToSayT]_vars

C23_Witness ==
    /\ last.op = "ISGetProperties"
    /\ driver = "MyCustomDriver"
    /\ config = "Hello, world!"
    /\ WhatToSayT = "Hello, world!"

\* C24: SelectFilter(index) leaves the target and the current filter at
\* index, calls SelectFilterDone(index) once and returns true; no other step
\* moves the current filter once initProperties has set it to 1; QueryFilter
\* returns the current filter; the current filter equals the target filter
\* after every step.
C24_SynchronousSelection ==
    [][driver = "DummyFilterWheel" =>
        /\ last'.op = "SelectFilter" =>
                /\ TargetFilter' = last'.index
                /\ CurrentFilter' = last'.index
                /\ last'.done = <<last'.index>>
                /\ last'.order = <<"SelectFilterDone">>
                /\ last'.ret
        /\ last'.op = "initProperties" => CurrentFilter' = 1
        /\ last'.op \notin {"SelectFilter", "initProperties"} =>
                CurrentFilter' = CurrentFilter
        /\ last'.op = "QueryFilter" => last'.index = CurrentFilter
        /\ CurrentFilter' = TargetFilter']_vars

C24_Witness ==
    /\ driver = "DummyFilterWheel"
    /\ last.op = "QueryFilter"
    /\ last.index = 2
    /\ TargetFilter = 2

\* C25: whenever sendCommand overwrites the last byte of the response, the
\* index nbytes_read - 1 lies inside res, that is in 0..7.
C25_IndexInsideBuffer ==
    (last.op = "sendCommand" /\ last.io.index # -1) =>
        last.io.index \in 0..(RES_SIZE - 1)

\* C26: every Handshake of the filter wheel, in simulation or not, returns
\* true, calls IUUpdateMinMax once and leaves the slot range at [1, 8]; the
\* range is [1, 8] in every state after a successful connect.
C26_HandshakeSetsRange ==
    driver = "DummyFilterWheel" =>
        /\ last.op = "Handshake" =>
                /\ last.ret
                /\ last.order = <<"IUUpdateMinMax">>
                /\ slots = <<1, 8>>
        /\ (isConnected \/ wasConnected) => slots = <<1, 8>>

C26_Witness ==
    /\ driver = "DummyFilterWheel"
    /\ last.op = "Handshake"
    /\ sim
    /\ isConnected
    /\ FilterSlotN_max = 8

====
